---- MODULE Spec2Model ----
(***************************************************************************)
(* Model of the Oxford Instruments Mercury iTC driver                      *)
(* (qcodes_contrib_drivers/drivers/Oxford/mercury_itc.py, class            *)
(* Teslatron_MercuryiTC): the two lookup tables built by __init__ and the  *)
(* command/response codec of the private getters and setters.             *)
(*                                                                         *)
(* A Python str is a sequence of one-character strings, so that split,     *)
(* slicing, float() and the f-string number formats are computed and not   *)
(* assumed.  A Python dict is the sequence of its <<key, value>> items in  *)
(* insertion order, keys unique.                                           *)
(***************************************************************************)
EXTENDS Integers, Sequences, FiniteSets, TLC

VARIABLES
    board_mapping,          \* self.board_mapping: channel name -> hardware address
    status_mapping,         \* self.status_mapping: token -> bool
    reverse_board_mapping,  \* self.reverse_board_mapping: hardware address -> channel name
    reverse_status_mapping, \* self.reverse_status_mapping: bool -> token
    constructed,            \* __init__ has run to its end
    calls,                  \* number of parameter accesses made so far
    io,                     \* transport operations so far, in order: "write" / "read"
    called,                 \* the method of the last access
    uid_arg,                \* its uid
    value_arg,              \* its value (setters)
    command,                \* the last command handed to the transport
    response,               \* the last reply the transport returned
    result                  \* what the last access returned or raised

tables == <<board_mapping, status_mapping, reverse_board_mapping, reverse_status_mapping>>
vars == <<board_mapping, status_mapping, reverse_board_mapping, reverse_status_mapping,
          constructed, calls, io, called, uid_arg, value_arg, command, response, result>>

\* Number of parameter accesses explored in one behaviour.
MaxCalls == 2
\* Setter values n/16 for n in 0..MaxSixteenths (binary fractions, exact as floats).
MaxSixteenths == 3

(***************************************************************************)
(* Python values                                                           *)
(***************************************************************************)
None == [kind |-> "None"]
Raise(exc) == [kind |-> "raise", exc |-> exc]
Bool(b) == [kind |-> "bool", val |-> b]
\* A float read from decimal text: mant / 10^scale, without trailing zeros.
Float(mant, scale) == [kind |-> "float", mant |-> mant, scale |-> scale]
\* A float handed to a setter: the exact value num / den.
Number(num, den) == [kind |-> "number", num |-> num, den |-> den]

Digits == {"0", "1", "2", "3", "4", "5", "6", "7", "8", "9"}
DigitValue(c) == CASE c = "0" -> 0 [] c = "1" -> 1 [] c = "2" -> 2 [] c = "3" -> 3
                   [] c = "4" -> 4 [] c = "5" -> 5 [] c = "6" -> 6 [] c = "7" -> 7
                   [] c = "8" -> 8 [] c = "9" -> 9
DigitChar(d) == <<"0", "1", "2", "3", "4", "5", "6", "7", "8", "9">>[d + 1]

RECURSIVE Pow10(_)
Pow10(n) == IF n = 0 THEN 1 ELSE 10 * Pow10(n - 1)

(***************************************************************************)
(* dict                                                                    *)
(***************************************************************************)
HasKey(d, k) == \E i \in 1..Len(d) : d[i][1] = k
\* d[k], for a key that is present
Get(d, k) == d[CHOOSE i \in 1..Len(d) : d[i][1] = k][2]
\* d[k] = v: a present key keeps its place, a new key goes last
DictSet(d, k, v) ==
    IF HasKey(d, k)
    THEN [i \in 1..Len(d) |-> IF d[i][1] = k THEN <<k, v>> ELSE d[i]]
    ELSE Append(d, <<k, v>>)
DictKeys(d) == {d[i][1] : i \in 1..Len(d)}

(***************************************************************************)
(* str                                                                     *)
(***************************************************************************)
\* s.split(":")
RECURSIVE split(_)
split(s) ==
    IF \A i \in 1..Len(s) : s[i] # ":"
    THEN <<s>>
    ELSE LET i == CHOOSE i \in 1..Len(s) : s[i] = ":" /\ \A j \in 1..(i - 1) : s[j] # ":"
         IN  <<SubSeq(s, 1, i - 1)>> \o split(SubSeq(s, i + 1, Len(s)))

\* s[:-n] for n >= 1
DropLast(s, n) == IF Len(s) <= n THEN <<>> ELSE SubSeq(s, 1, Len(s) - n)

RECURSIVE DigitsValue(_)
DigitsValue(s) ==
    IF Len(s) = 0 THEN 0
    ELSE 10 * DigitsValue(SubSeq(s, 1, Len(s) - 1)) + DigitValue(s[Len(s)])

RECURSIVE Normalised(_, _)
Normalised(mant, scale) ==
    IF scale > 0 /\ mant % 10 = 0 THEN Normalised(mant \div 10, scale - 1)
    ELSE Float(mant, scale)

\* float(s) for text over digits, sign, point and letters: an optional sign, then
\* digits with at most one point and at least one digit; anything else is a
\* ValueError.  (Exponents, inf/nan, underscores and blanks are not in the
\* replies modelled.)
float(s) ==
    LET signed == Len(s) > 0 /\ s[1] \in {"+", "-"}
        body   == IF signed THEN SubSeq(s, 2, Len(s)) ELSE s
        points == {i \in 1..Len(body) : body[i] = "."}
        wellformed == /\ \A i \in 1..Len(body) : body[i] \in Digits \cup {"."}
                      /\ Cardinality(points) <= 1
                      /\ Len(body) - Cardinality(points) >= 1
        digits == SelectSeq(body, LAMBDA c : c \in Digits)
        scale  == IF points = {} THEN 0 ELSE Len(body) - (CHOOSE i \in points : TRUE)
        mant   == DigitsValue(digits)
    IN  IF ~wellformed THEN Raise("ValueError")
        ELSE IF signed /\ s[1] = "-"
             THEN Normalised(0 - mant, scale)
             ELSE Normalised(mant, scale)

RECURSIVE NatToStr(_)
NatToStr(n) == IF n < 10 THEN <<DigitChar(n)>> ELSE NatToStr(n \div 10) \o <<DigitChar(n % 10)>>

RECURSIVE ZeroPadded(_, _)
ZeroPadded(n, width) ==
    IF width = 0 THEN <<>> ELSE ZeroPadded(n \div 10, width - 1) \o <<DigitChar(n % 10)>>

\* format(v, "0.<prec>f") for a float v >= 0 of exact value v.num / v.den: the
\* correctly rounded decimal (ties to even) with prec digits after the point.
format_f(v, prec) ==
    LET scaled  == v.num * Pow10(prec)
        q       == scaled \div v.den
        r       == scaled % v.den
        rounded == IF 2 * r > v.den \/ (2 * r = v.den /\ q % 2 = 1) THEN q + 1 ELSE q
    IN  NatToStr(rounded \div Pow10(prec)) \o <<".">> \o ZeroPadded(rounded % Pow10(prec), prec)

(***************************************************************************)
(* Construction                                                            *)
(***************************************************************************)
\* The dict literal of self.board_mapping
BoardMapping ==
    << <<"VTI", <<"M", "B", "1", ".", "T", "1">>>>, <<"VTI_heater", <<"M", "B", "0">>>>, <<"probe", <<"D", "B", "8", ".", "T", "1">>>>,
       <<"probe_heater", <<"D", "B", "3">>>>, <<"gasflow", <<"D", "B", "4">>>>, <<"pressure", <<"D", "B", "5", ".", "P", "1">>>> >>

\* The dict literal of self.status_mapping
StatusMapping == << <<<<"O", "N">>, TRUE>>, <<<<"O", "F", "F">>, FALSE>> >>

\* Variant: the last item of the dict is left out of the inverse.
RECURSIVE ReverseAll(_)
ReverseAll(map) ==
    IF Len(map) = 0 THEN <<>>
    ELSE LET item == map[Len(map)]
         IN  DictSet(ReverseAll(SubSeq(map, 1, Len(map) - 1)), item[2], item[1])
_reverse_mapping_OffByOne(map) ==
    IF Len(map) = 0 THEN <<>> ELSE ReverseAll(SubSeq(map, 1, Len(map) - 1))
\* {value: key for key, value in map.items()}: a value met again overwrites
\* the key stored for it; nothing is checked and nothing is raised.
RECURSIVE _reverse_mapping(_)
_reverse_mapping(map) ==
    IF Len(map) = 0 THEN <<>>
    ELSE LET item == map[Len(map)]
         IN  DictSet(_reverse_mapping(SubSeq(map, 1, Len(map) - 1)), item[2], item[1])

\* The instance as the methods see it
self == [board_mapping          |-> board_mapping,
         status_mapping         |-> status_mapping,
         reverse_board_mapping  |-> reverse_board_mapping,
         reverse_status_mapping |-> reverse_status_mapping]

\* The uids __init__ binds into the parameters' get_cmd / set_cmd lambdas
vti_uid == Get(board_mapping, "VTI")
probe_uid == Get(board_mapping, "probe")
pressure_uid == Get(board_mapping, "pressure")

\* The state once __init__ has returned
Init ==
    /\ board_mapping = BoardMapping
    /\ status_mapping = StatusMapping
    /\ reverse_board_mapping = _reverse_mapping(BoardMapping)
    /\ reverse_status_mapping = _reverse_mapping(StatusMapping)
    /\ constructed = TRUE
    /\ calls = 0
    /\ io = <<>>
    /\ called = "__init__"
    /\ uid_arg = <<>>
    /\ value_arg = None
    /\ command = <<>>
    /\ response = <<>>
    /\ result = None

\* Board and status tables an operator may have written into __init__ ("Change
\* the board maping to your specific system"), duplicates included.
Addresses == {<<"M", "B", "1", ".", "T", "1">>, <<"D", "B", "8", ".", "T", "1">>, <<"D", "B", "5", ".", "P", "1">>}
BoardConfigs ==
    {<< <<"VTI", a>>, <<"probe", b>>, <<"pressure", c>> >> : a \in Addresses, b \in Addresses, c \in Addresses}
StatusConfigs == {<< <<<<"O", "N">>, x>>, <<<<"O", "F", "F">>, y>> >> : x \in BOOLEAN, y \in BOOLEAN}

\* Before __init__ runs: the tables it is about to assign, nothing built yet
InitNew ==
    /\ board_mapping \in BoardConfigs
    /\ status_mapping \in StatusConfigs
    /\ reverse_board_mapping = <<>>
    /\ reverse_status_mapping = <<>>
    /\ constructed = FALSE
    /\ calls = 0
    /\ io = <<>>
    /\ called = ""
    /\ uid_arg = <<>>
    /\ value_arg = None
    /\ command = <<>>
    /\ response = <<>>
    /\ result = None

\* __init__: the two inverse tables are built, then the three uids are looked up
__init__ ==
    /\ ~constructed
    /\ called = ""
    /\ called' = "__init__"
    /\ reverse_board_mapping' = _reverse_mapping(board_mapping)
    /\ reverse_status_mapping' = _reverse_mapping(status_mapping)
    /\ IF {"VTI", "probe", "pressure"} \subseteq DictKeys(board_mapping)
       THEN constructed' = TRUE /\ result' = None
       ELSE constructed' = FALSE /\ result' = Raise("KeyError")
    /\ UNCHANGED <<board_mapping, status_mapping, calls, io, uid_arg, value_arg, command, response>>

NextNew == __init__
SpecNew == InitNew /\ [][NextNew]_vars

(***************************************************************************)
(* Transport                                                               *)
(***************************************************************************)
\* self.visa_handle.query(command): one write of the command, then one read of
\* the reply.
query(cmd) == <<"write", "read">>

RECURSIVE Exchanges(_)
Exchanges(cmds) == IF Len(cmds) = 0 THEN <<>> ELSE query(cmds[1]) \o Exchanges(Tail(cmds))

\* One parameter access: method(uid, value) hands the commands `cmds` to
\* query, in order, the transport answers `resp`, and the method returns or
\* raises `ret`.  No method assigns to an attribute of self.
Access(method, uid, value, cmds, resp, ret) ==
    /\ constructed
    /\ calls < MaxCalls
    /\ calls' = calls + 1
    /\ called' = method
    /\ uid_arg' = uid
    /\ value_arg' = value
    /\ io' = io \o Exchanges(cmds)
    /\ command' = IF Len(cmds) = 0 THEN <<>> ELSE cmds[Len(cmds)]
    /\ response' = resp
    /\ result' = ret
    /\ UNCHANGED <<tables, constructed>>

(***************************************************************************)
(* Replies                                                                 *)
(***************************************************************************)
Payloads ==
    {<<"4", ".", "2", "1", "3", "K">>, <<"1", ".", "2", "5", "K", "/">>, <<"1", ".", "0", "0", "0", "0", "K", "/", "m">>, <<"O", "N">>, <<"O", "F", "F">>, <<"M", "A", "Y", "B", "E">>, <<"1", "2", ".", "5", "0">>, <<"5", ".", "0", "0", "m", "B">>, <<>>}
ForeignFields == {<<"O", "N">>, <<"2", ".", "5", "0", "K">>, <<"7", ".", "2", "5", "K", "/", "m">>}

\* What the transport may answer to a READ of `path` on `uid`: the device's
\* echo with a payload, seven unrelated fields, an eighth field, and replies
\* that are too short.
ReadReplies(uid, path) ==
    LET echo == <<"S", "T", "A", "T", ":", "D", "E", "V", ":">> \o uid \o <<":">> \o path
    IN  {echo \o <<":">> \o p : p \in Payloads}
        \cup {<<"A", ":", "B", ":", "C", ":", "D", ":", "E", ":">> \o f \o <<":">> \o p : f \in ForeignFields, p \in ForeignFields}
        \cup {echo \o <<":">> \o p \o <<":", "X">> : p \in {<<"O", "N">>, <<"4", ".", "2", "1", "3", "K">>}}
        \cup {<<"A", ":", "B", ":", "C">>, <<>>, echo}

\* What the transport may answer to a SET of `path` on `uid`
WriteReplies(uid, path) ==
    LET echo == <<"S", "T", "A", "T", ":", "S", "E", "T", ":", "D", "E", "V", ":">> \o uid \o <<":">> \o path
    IN  {echo \o <<":", "V", "A", "L", "I", "D">>, echo \o <<":", "I", "N", "V", "A", "L", "I", "D">>, <<"A", ":", "B", ":", "C">>}

(***************************************************************************)
(* Getters.  For each: the command it builds, what it returns or raises    *)
(* for a reply, and the access as a whole.                                 *)
(***************************************************************************)
get_temperature_command(uid) == <<"R", "E", "A", "D", ":", "D", "E", "V", ":">> \o uid \o <<":", "T", "E", "M", "P", ":", "S", "I", "G", ":", "T", "E", "M", "P">>
\* Variant: splitted_repsonse[5] in place of splitted_repsonse[6].
get_temperature_return_Field5(obj, uid, resp) ==
    LET splitted_repsonse == split(resp)
    IN  IF Len(splitted_repsonse) < 6 THEN Raise("IndexError")
        ELSE LET temperature == splitted_repsonse[6]
             IN  IF ~HasKey(obj.reverse_board_mapping, uid) THEN Raise("KeyError")
                 ELSE float(DropLast(temperature, 1))
\* temperature = response.split(":")[6]; return float(temperature[:-1])
get_temperature_return(obj, uid, resp) ==
    LET splitted_repsonse == split(resp)
    IN  IF Len(splitted_repsonse) < 7 THEN Raise("IndexError")
        ELSE LET temperature == splitted_repsonse[7]
             IN  IF ~HasKey(obj.reverse_board_mapping, uid) THEN Raise("KeyError")
                 ELSE float(DropLast(temperature, 1))
_get_temperature(uid, resp) ==
    Access("_get_temperature", uid, None, <<get_temperature_command(uid)>>, resp,
           get_temperature_return(self, uid, resp))

get_temperature_setpoint_command(uid) == <<"R", "E", "A", "D", ":", "D", "E", "V", ":">> \o uid \o <<":", "T", "E", "M", "P", ":", "L", "O", "O", "P", ":", "T", "S", "E", "T">>
\* set_temperature = response.split(":")[6]; return float(set_temperature[:-1])
get_temperature_setpoint_return(obj, uid, resp) ==
    LET splitted_repsonse == split(resp)
    IN  IF Len(splitted_repsonse) < 7 THEN Raise("IndexError")
        ELSE LET set_temperature == splitted_repsonse[7]
             IN  IF ~HasKey(obj.reverse_board_mapping, uid) THEN Raise("KeyError")
                 ELSE float(DropLast(set_temperature, 1))
_get_temperature_setpoint(uid, resp) ==
    Access("_get_temperature_setpoint", uid, None, <<get_temperature_setpoint_command(uid)>>, resp,
           get_temperature_setpoint_return(self, uid, resp))

get_temperature_ramp_rate_command(uid) == <<"R", "E", "A", "D", ":", "D", "E", "V", ":">> \o uid \o <<":", "T", "E", "M", "P", ":", "L", "O", "O", "P", ":", "R", "S", "E", "T">>
\* Variant: ramp_rate[:-2] in place of ramp_rate[:-3].
get_temperature_ramp_rate_return_StripsTwo(obj, uid, resp) ==
    LET splitted_repsonse == split(resp)
    IN  IF Len(splitted_repsonse) < 7 THEN Raise("IndexError")
        ELSE LET ramp_rate == splitted_repsonse[7]
             IN  IF ~HasKey(obj.reverse_board_mapping, uid) THEN Raise("KeyError")
                 ELSE float(DropLast(ramp_rate, 2))
\* ramp_rate = response.split(":")[6]; return float(ramp_rate[:-3])
get_temperature_ramp_rate_return(obj, uid, resp) ==
    LET splitted_repsonse == split(resp)
    IN  IF Len(splitted_repsonse) < 7 THEN Raise("IndexError")
        ELSE LET ramp_rate == splitted_repsonse[7]
             IN  IF ~HasKey(obj.reverse_board_mapping, uid) THEN Raise("KeyError")
                 ELSE float(DropLast(ramp_rate, 3))
_get_temperature_ramp_rate(uid, resp) ==
    Access("_get_temperature_ramp_rate", uid, None, <<get_temperature_ramp_rate_command(uid)>>, resp,
           get_temperature_ramp_rate_return(self, uid, resp))

get_ramp_mode_command(uid) == <<"R", "E", "A", "D", ":", "D", "E", "V", ":">> \o uid \o <<":", "T", "E", "M", "P", ":", "L", "O", "O", "P", ":", "R", "E", "N", "A">>
\* ramp_status = response.split(":")[6]; return self.status_mapping[ramp_status]
get_ramp_mode_return(obj, uid, resp) ==
    LET splitted_repsonse == split(resp)
    IN  IF Len(splitted_repsonse) < 7 THEN Raise("IndexError")
        ELSE LET ramp_status == splitted_repsonse[7]
             IN  IF ~HasKey(obj.reverse_board_mapping, uid) THEN Raise("KeyError")
                 ELSE IF ~HasKey(obj.status_mapping, ramp_status) THEN Raise("KeyError")
                 ELSE Bool(Get(obj.status_mapping, ramp_status))
\* Variant: an unknown token is remembered in self.status_mapping as False.
_get_ramp_mode_Remembers(uid, resp) ==
    /\ constructed
    /\ calls < MaxCalls
    /\ calls' = calls + 1
    /\ called' = "_get_ramp_mode"
    /\ uid_arg' = uid
    /\ value_arg' = None
    /\ io' = io \o query(get_ramp_mode_command(uid))
    /\ command' = get_ramp_mode_command(uid)
    /\ response' = resp
    /\ result' = get_ramp_mode_return(self, uid, resp)
    /\ status_mapping' =
           IF Len(split(resp)) >= 7 /\ ~HasKey(status_mapping, split(resp)[7])
           THEN DictSet(status_mapping, split(resp)[7], FALSE)
           ELSE status_mapping
    /\ UNCHANGED <<board_mapping, reverse_board_mapping, reverse_status_mapping, constructed>>
_get_ramp_mode(uid, resp) ==
    Access("_get_ramp_mode", uid, None, <<get_ramp_mode_command(uid)>>, resp,
           get_ramp_mode_return(self, uid, resp))

get_pid_mode_command(uid) == <<"R", "E", "A", "D", ":", "D", "E", "V", ":">> \o uid \o <<":", "T", "E", "M", "P", ":", "L", "O", "O", "P", ":", "E", "N", "A", "B">>
\* Variant: self.status_mapping.get(pid_status, False) in place of the lookup.
get_pid_mode_return_Default(obj, uid, resp) ==
    LET splitted_repsonse == split(resp)
    IN  IF Len(splitted_repsonse) < 7 THEN Raise("IndexError")
        ELSE LET pid_status == splitted_repsonse[7]
             IN  IF ~HasKey(obj.reverse_board_mapping, uid) THEN Raise("KeyError")
                 ELSE IF ~HasKey(obj.status_mapping, pid_status) THEN Bool(FALSE)
                 ELSE Bool(Get(obj.status_mapping, pid_status))
\* pid_status = response.split(":")[6]; return self.status_mapping[pid_status]
get_pid_mode_return(obj, uid, resp) ==
    LET splitted_repsonse == split(resp)
    IN  IF Len(splitted_repsonse) < 7 THEN Raise("IndexError")
        ELSE LET pid_status == splitted_repsonse[7]
             IN  IF ~HasKey(obj.reverse_board_mapping, uid) THEN Raise("KeyError")
                 ELSE IF ~HasKey(obj.status_mapping, pid_status) THEN Raise("KeyError")
                 ELSE Bool(Get(obj.status_mapping, pid_status))
_get_pid_mode(uid, resp) ==
    Access("_get_pid_mode", uid, None, <<get_pid_mode_command(uid)>>, resp,
           get_pid_mode_return(self, uid, resp))

get_heater_output_command(uid) == <<"R", "E", "A", "D", ":", "D", "E", "V", ":">> \o uid \o <<":", "T", "E", "M", "P", ":", "L", "O", "O", "P", ":", "H", "S", "E", "T">>
\* heater_output = response.split(":")[6]; return float(heater_output)
get_heater_output_return(obj, uid, resp) ==
    LET splitted_repsonse == split(resp)
    IN  IF Len(splitted_repsonse) < 7 THEN Raise("IndexError")
        ELSE LET heater_output == splitted_repsonse[7]
             IN  IF ~HasKey(obj.reverse_board_mapping, uid) THEN Raise("KeyError")
                 ELSE float(heater_output)
\* Variant: a read that failed is tried once more.
_get_heater_output_Retry(uid, resp) ==
    Access("_get_heater_output", uid, None,
           IF get_heater_output_return(self, uid, resp).kind = "raise"
           THEN <<get_heater_output_command(uid), get_heater_output_command(uid)>>
           ELSE <<get_heater_output_command(uid)>>,
           resp, get_heater_output_return(self, uid, resp))
_get_heater_output(uid, resp) ==
    Access("_get_heater_output", uid, None, <<get_heater_output_command(uid)>>, resp,
           get_heater_output_return(self, uid, resp))

get_pressure_mode_command(uid) == <<"R", "E", "A", "D", ":", "D", "E", "V", ":">> \o uid \o <<":", "P", "R", "E", "S", ":", "L", "O", "O", "P", ":", "E", "N", "A", "B">>
\* control_status = response.split(":")[6]; return self.status_mapping[control_status]
get_pressure_mode_return(obj, uid, resp) ==
    LET splitted_repsonse == split(resp)
    IN  IF Len(splitted_repsonse) < 7 THEN Raise("IndexError")
        ELSE LET control_status == splitted_repsonse[7]
             IN  IF ~HasKey(obj.reverse_board_mapping, uid) THEN Raise("KeyError")
                 ELSE IF ~HasKey(obj.status_mapping, control_status) THEN Raise("KeyError")
                 ELSE Bool(Get(obj.status_mapping, control_status))
_get_pressure_mode(uid, resp) ==
    Access("_get_pressure_mode", uid, None, <<get_pressure_mode_command(uid)>>, resp,
           get_pressure_mode_return(self, uid, resp))

\* Variant: the flow is read from a path the table does not have.
get_flow_command_WrongPath(uid) == <<"R", "E", "A", "D", ":", "D", "E", "V", ":">> \o uid \o <<":", "P", "R", "E", "S", ":", "L", "O", "O", "P", ":", "F", "L", "O", "W">>
get_flow_command(uid) == <<"R", "E", "A", "D", ":", "D", "E", "V", ":">> \o uid \o <<":", "P", "R", "E", "S", ":", "L", "O", "O", "P", ":", "F", "S", "E", "T">>
\* flow_percentage = response.split(":")[6]; return float(flow_percentage)
get_flow_return(obj, uid, resp) ==
    LET splitted_repsonse == split(resp)
    IN  IF Len(splitted_repsonse) < 7 THEN Raise("IndexError")
        ELSE LET flow_percentage == splitted_repsonse[7]
             IN  IF ~HasKey(obj.reverse_board_mapping, uid) THEN Raise("KeyError")
                 ELSE float(flow_percentage)
_get_flow(uid, resp) ==
    Access("_get_flow", uid, None, <<get_flow_command(uid)>>, resp,
           get_flow_return(self, uid, resp))

get_pressure_command(uid) == <<"R", "E", "A", "D", ":", "D", "E", "V", ":">> \o uid \o <<":", "P", "R", "E", "S", ":", "S", "I", "G", ":", "P", "R", "E", "S">>
\* pressure = response.split(":")[6]; return float(pressure[:-2])
get_pressure_return(obj, uid, resp) ==
    LET splitted_repsonse == split(resp)
    IN  IF Len(splitted_repsonse) < 7 THEN Raise("IndexError")
        ELSE LET pressure == splitted_repsonse[7]
             IN  float(DropLast(pressure, 2))
_get_pressure(uid, resp) ==
    Access("_get_pressure", uid, None, <<get_pressure_command(uid)>>, resp,
           get_pressure_return(self, uid, resp))

get_pressure_setpoint_command(uid) == <<"R", "E", "A", "D", ":", "D", "E", "V", ":">> \o uid \o <<":", "P", "R", "E", "S", ":", "L", "O", "O", "P", ":", "P", "R", "S", "T">>
\* pressure = response.split(":")[6]; return float(pressure[:-2])
get_pressure_setpoint_return(obj, uid, resp) ==
    LET splitted_repsonse == split(resp)
    IN  IF Len(splitted_repsonse) < 7 THEN Raise("IndexError")
        ELSE LET pressure == splitted_repsonse[7]
             IN  float(DropLast(pressure, 2))
_get_pressure_setpoint(uid, resp) ==
    Access("_get_pressure_setpoint", uid, None, <<get_pressure_setpoint_command(uid)>>, resp,
           get_pressure_setpoint_return(self, uid, resp))

(***************************************************************************)
(* Setters.  For each: the command it builds, what it returns or raises    *)
(* once the reply is in, and the access as a whole.  The reply is logged   *)
(* and not looked at.                                                      *)
(***************************************************************************)
\* The info message names the channel: self.reverse_board_mapping[uid]
channel_logged(obj, uid) ==
    IF ~HasKey(obj.reverse_board_mapping, uid) THEN Raise("KeyError") ELSE None

\* f"SET:DEV:{uid}:TEMP:LOOP:TSET:{temperature_setpoint:0.3f}"
set_temperature_setpoint_command(uid, temperature_setpoint) ==
    <<"S", "E", "T", ":", "D", "E", "V", ":">> \o uid \o <<":", "T", "E", "M", "P", ":", "L", "O", "O", "P", ":", "T", "S", "E", "T", ":">> \o format_f(temperature_setpoint, 3)
\* Variant: a reply that does not end in VALID makes the setter raise.
set_temperature_setpoint_return_Checked(obj, uid, resp) ==
    LET fields == split(resp)
    IN  IF fields[Len(fields)] # <<"V", "A", "L", "I", "D">> THEN Raise("ValueError")
        ELSE channel_logged(obj, uid)
set_temperature_setpoint_return(obj, uid, resp) == channel_logged(obj, uid)
_set_temperature_setpoint(uid, temperature_setpoint, resp) ==
    Access("_set_temperature_setpoint", uid, temperature_setpoint, <<set_temperature_setpoint_command(uid, temperature_setpoint)>>, resp,
           set_temperature_setpoint_return(self, uid, resp))

\* f"SET:DEV:{uid}:TEMP:LOOP:RSET:{ramp_rate:0.3f}"
set_temperature_ramp_rate_command(uid, ramp_rate) ==
    <<"S", "E", "T", ":", "D", "E", "V", ":">> \o uid \o <<":", "T", "E", "M", "P", ":", "L", "O", "O", "P", ":", "R", "S", "E", "T", ":">> \o format_f(ramp_rate, 3)
set_temperature_ramp_rate_return(obj, uid, resp) == channel_logged(obj, uid)
_set_temperature_ramp_rate(uid, ramp_rate, resp) ==
    Access("_set_temperature_ramp_rate", uid, ramp_rate, <<set_temperature_ramp_rate_command(uid, ramp_rate)>>, resp,
           set_temperature_ramp_rate_return(self, uid, resp))

\* Variant: the bool is substituted as Python prints it, not through the table.
set_ramp_mode_command_Unmapped(obj, uid, ramp_mode) ==
    <<"S", "E", "T", ":", "D", "E", "V", ":">> \o uid \o <<":", "T", "E", "M", "P", ":", "L", "O", "O", "P", ":", "R", "E", "N", "A", ":">> \o (IF ramp_mode THEN <<"T", "r", "u", "e">> ELSE <<"F", "a", "l", "s", "e">>)
\* ramp_mode = self.reverse_status_mapping[ramp_mode]; f"SET:DEV:{uid}:TEMP:LOOP:RENA:{ramp_mode}"
set_ramp_mode_command(obj, uid, ramp_mode) ==
    <<"S", "E", "T", ":", "D", "E", "V", ":">> \o uid \o <<":", "T", "E", "M", "P", ":", "L", "O", "O", "P", ":", "R", "E", "N", "A", ":">> \o Get(obj.reverse_status_mapping, ramp_mode)
set_ramp_mode_return(obj, uid, resp) == channel_logged(obj, uid)
_set_ramp_mode(uid, ramp_mode, resp) ==
    IF ~HasKey(reverse_status_mapping, ramp_mode)
    THEN Access("_set_ramp_mode", uid, Bool(ramp_mode), <<>>, <<>>, Raise("KeyError"))
    ELSE Access("_set_ramp_mode", uid, Bool(ramp_mode), <<set_ramp_mode_command(self, uid, ramp_mode)>>, resp,
                set_ramp_mode_return(self, uid, resp))

\* pid_mode = self.reverse_status_mapping[pid_mode]; f"SET:DEV:{uid}:TEMP:LOOP:ENAB:{pid_mode}"
set_pid_mode_command(obj, uid, pid_mode) ==
    <<"S", "E", "T", ":", "D", "E", "V", ":">> \o uid \o <<":", "T", "E", "M", "P", ":", "L", "O", "O", "P", ":", "E", "N", "A", "B", ":">> \o Get(obj.reverse_status_mapping, pid_mode)
set_pid_mode_return(obj, uid, resp) == channel_logged(obj, uid)
_set_pid_mode(uid, pid_mode, resp) ==
    IF ~HasKey(reverse_status_mapping, pid_mode)
    THEN Access("_set_pid_mode", uid, Bool(pid_mode), <<>>, <<>>, Raise("KeyError"))
    ELSE Access("_set_pid_mode", uid, Bool(pid_mode), <<set_pid_mode_command(self, uid, pid_mode)>>, resp,
                set_pid_mode_return(self, uid, resp))

\* f"SET:DEV:{uid}:TEMP:LOOP:HSET:{heater_output:0.2f}"
set_heater_output_command(uid, heater_output) ==
    <<"S", "E", "T", ":", "D", "E", "V", ":">> \o uid \o <<":", "T", "E", "M", "P", ":", "L", "O", "O", "P", ":", "H", "S", "E", "T", ":">> \o format_f(heater_output, 2)
set_heater_output_return(obj, uid, resp) == channel_logged(obj, uid)
_set_heater_output(uid, heater_output, resp) ==
    Access("_set_heater_output", uid, heater_output, <<set_heater_output_command(uid, heater_output)>>, resp,
           set_heater_output_return(self, uid, resp))

\* control_mode = self.reverse_status_mapping[control_mode]; f"SET:DEV:{uid}:PRES:LOOP:ENAB:{control_mode}"
set_pressure_mode_command(obj, uid, control_mode) ==
    <<"S", "E", "T", ":", "D", "E", "V", ":">> \o uid \o <<":", "P", "R", "E", "S", ":", "L", "O", "O", "P", ":", "E", "N", "A", "B", ":">> \o Get(obj.reverse_status_mapping, control_mode)
set_pressure_mode_return(obj, uid, resp) == channel_logged(obj, uid)
_set_pressure_mode(uid, control_mode, resp) ==
    IF ~HasKey(reverse_status_mapping, control_mode)
    THEN Access("_set_pressure_mode", uid, Bool(control_mode), <<>>, <<>>, Raise("KeyError"))
    ELSE Access("_set_pressure_mode", uid, Bool(control_mode), <<set_pressure_mode_command(self, uid, control_mode)>>, resp,
                set_pressure_mode_return(self, uid, resp))

\* Variant: the flow is written with the set-points' three decimals.
set_flow_command_ThreeDecimals(uid, flow) ==
    <<"S", "E", "T", ":", "D", "E", "V", ":">> \o uid \o <<":", "P", "R", "E", "S", ":", "L", "O", "O", "P", ":", "F", "S", "E", "T", ":">> \o format_f(flow, 3)
\* f"SET:DEV:{uid}:PRES:LOOP:FSET:{flow:0.2f}"
set_flow_command(uid, flow) ==
    <<"S", "E", "T", ":", "D", "E", "V", ":">> \o uid \o <<":", "P", "R", "E", "S", ":", "L", "O", "O", "P", ":", "F", "S", "E", "T", ":">> \o format_f(flow, 2)
set_flow_return(obj, uid, resp) == channel_logged(obj, uid)
_set_flow(uid, flow, resp) ==
    Access("_set_flow", uid, flow, <<set_flow_command(uid, flow)>>, resp,
           set_flow_return(self, uid, resp))

\* f"SET:DEV:{uid}:PRES:LOOP:PRST:{pressure:0.2f}"
set_pressure_command(uid, pressure) ==
    <<"S", "E", "T", ":", "D", "E", "V", ":">> \o uid \o <<":", "P", "R", "E", "S", ":", "L", "O", "O", "P", ":", "P", "R", "S", "T", ":">> \o format_f(pressure, 2)
set_pressure_return(obj, uid, resp) == None
_set_pressure(uid, pressure, resp) ==
    Access("_set_pressure", uid, pressure, <<set_pressure_command(uid, pressure)>>, resp,
           set_pressure_return(self, uid, resp))

(***************************************************************************)
(* The parameters __init__ registers: which uid each method is bound to    *)
(* and which values its validator lets through.                            *)
(***************************************************************************)
TempUids == {vti_uid, probe_uid}
PresUids == {pressure_uid}

Tenths == {42, 500, 3000}
Eighths == {9, 11}
\* Floats a caller may pass: binary fractions (exact, so a tie in the last
\* digit kept is a real tie) and one-decimal values such as 4.2 (whose float
\* is within 1e-13 of the decimal, far from any rounding boundary at 2 or 3
\* places).
Numbers ==
    {Number(n, 16) : n \in 0..MaxSixteenths} \cup {Number(n, 8) : n \in Eighths}
        \cup {Number(n, 10) : n \in Tenths}
\* vals.Numbers(min_value, max_value)
InRange(min_value, max_value) ==
    {v \in Numbers : min_value * v.den <= v.num /\ v.num <= max_value * v.den}

Next ==
    \/ \E uid \in TempUids : \E resp \in ReadReplies(uid, <<"T", "E", "M", "P", ":", "S", "I", "G", ":", "T", "E", "M", "P">>) : _get_temperature(uid, resp)
    \/ \E uid \in TempUids : \E resp \in ReadReplies(uid, <<"T", "E", "M", "P", ":", "L", "O", "O", "P", ":", "T", "S", "E", "T">>) : _get_temperature_setpoint(uid, resp)
    \/ \E uid \in TempUids : \E resp \in ReadReplies(uid, <<"T", "E", "M", "P", ":", "L", "O", "O", "P", ":", "R", "S", "E", "T">>) : _get_temperature_ramp_rate(uid, resp)
    \/ \E uid \in TempUids : \E resp \in ReadReplies(uid, <<"T", "E", "M", "P", ":", "L", "O", "O", "P", ":", "R", "E", "N", "A">>) : _get_ramp_mode(uid, resp)
    \/ \E uid \in TempUids : \E resp \in ReadReplies(uid, <<"T", "E", "M", "P", ":", "L", "O", "O", "P", ":", "E", "N", "A", "B">>) : _get_pid_mode(uid, resp)
    \/ \E uid \in TempUids : \E resp \in ReadReplies(uid, <<"T", "E", "M", "P", ":", "L", "O", "O", "P", ":", "H", "S", "E", "T">>) : _get_heater_output(uid, resp)
    \/ \E uid \in PresUids : \E resp \in ReadReplies(uid, <<"P", "R", "E", "S", ":", "L", "O", "O", "P", ":", "E", "N", "A", "B">>) : _get_pressure_mode(uid, resp)
    \/ \E uid \in PresUids : \E resp \in ReadReplies(uid, <<"P", "R", "E", "S", ":", "L", "O", "O", "P", ":", "F", "S", "E", "T">>) : _get_flow(uid, resp)
    \/ \E uid \in PresUids : \E resp \in ReadReplies(uid, <<"P", "R", "E", "S", ":", "S", "I", "G", ":", "P", "R", "E", "S">>) : _get_pressure(uid, resp)
    \/ \E uid \in PresUids : \E resp \in ReadReplies(uid, <<"P", "R", "E", "S", ":", "L", "O", "O", "P", ":", "P", "R", "S", "T">>) : _get_pressure_setpoint(uid, resp)
    \/ \E uid \in TempUids : \E v \in InRange(0, 300) : \E resp \in WriteReplies(uid, <<"T", "E", "M", "P", ":", "L", "O", "O", "P", ":", "T", "S", "E", "T">>) :
          _set_temperature_setpoint(uid, v, resp)
    \/ \E uid \in TempUids : \E v \in InRange(0, 10) : \E resp \in WriteReplies(uid, <<"T", "E", "M", "P", ":", "L", "O", "O", "P", ":", "R", "S", "E", "T">>) :
          _set_temperature_ramp_rate(uid, v, resp)
    \/ \E uid \in TempUids : \E v \in BOOLEAN : \E resp \in WriteReplies(uid, <<"T", "E", "M", "P", ":", "L", "O", "O", "P", ":", "R", "E", "N", "A">>) :
          _set_ramp_mode(uid, v, resp)
    \/ \E uid \in TempUids : \E v \in BOOLEAN : \E resp \in WriteReplies(uid, <<"T", "E", "M", "P", ":", "L", "O", "O", "P", ":", "E", "N", "A", "B">>) :
          _set_pid_mode(uid, v, resp)
    \/ \E uid \in TempUids : \E v \in InRange(0, 100) : \E resp \in WriteReplies(uid, <<"T", "E", "M", "P", ":", "L", "O", "O", "P", ":", "H", "S", "E", "T">>) :
          _set_heater_output(uid, v, resp)
    \/ \E uid \in PresUids : \E v \in BOOLEAN : \E resp \in WriteReplies(uid, <<"P", "R", "E", "S", ":", "L", "O", "O", "P", ":", "E", "N", "A", "B">>) :
          _set_pressure_mode(uid, v, resp)
    \/ \E uid \in PresUids : \E v \in InRange(0, 100) : \E resp \in WriteReplies(uid, <<"P", "R", "E", "S", ":", "L", "O", "O", "P", ":", "F", "S", "E", "T">>) :
          _set_flow(uid, v, resp)
    \/ \E uid \in PresUids : \E v \in InRange(1, 50) : \E resp \in WriteReplies(uid, <<"P", "R", "E", "S", ":", "L", "O", "O", "P", ":", "P", "R", "S", "T">>) :
          _set_pressure(uid, v, resp)

Spec == Init /\ [][Next]_vars

(***************************************************************************)
(* Properties                                                              *)
(***************************************************************************)
ReadMethods ==
    {"_get_temperature", "_get_temperature_setpoint", "_get_temperature_ramp_rate",
     "_get_ramp_mode", "_get_pid_mode", "_get_heater_output", "_get_pressure_mode",
     "_get_flow", "_get_pressure", "_get_pressure_setpoint"}
BooleanReadMethods == {"_get_ramp_mode", "_get_pid_mode", "_get_pressure_mode"}
NumericWriteMethods ==
    {"_set_temperature_setpoint", "_set_temperature_ramp_rate", "_set_heater_output",
     "_set_flow", "_set_pressure"}
BooleanWriteMethods == {"_set_ramp_mode", "_set_pid_mode", "_set_pressure_mode"}

\* The attribute path the specification's table gives each operation
TablePath(method) ==
    CASE method = "_get_temperature" -> <<"T", "E", "M", "P", ":", "S", "I", "G", ":", "T", "E", "M", "P">>
      [] method \in {"_get_temperature_setpoint", "_set_temperature_setpoint"} -> <<"T", "E", "M", "P", ":", "L", "O", "O", "P", ":", "T", "S", "E", "T">>
      [] method \in {"_get_temperature_ramp_rate", "_set_temperature_ramp_rate"} -> <<"T", "E", "M", "P", ":", "L", "O", "O", "P", ":", "R", "S", "E", "T">>
      [] method \in {"_get_ramp_mode", "_set_ramp_mode"} -> <<"T", "E", "M", "P", ":", "L", "O", "O", "P", ":", "R", "E", "N", "A">>
      [] method \in {"_get_pid_mode", "_set_pid_mode"} -> <<"T", "E", "M", "P", ":", "L", "O", "O", "P", ":", "E", "N", "A", "B">>
      [] method \in {"_get_heater_output", "_set_heater_output"} -> <<"T", "E", "M", "P", ":", "L", "O", "O", "P", ":", "H", "S", "E", "T">>
      [] method \in {"_get_pressure_mode", "_set_pressure_mode"} -> <<"P", "R", "E", "S", ":", "L", "O", "O", "P", ":", "E", "N", "A", "B">>
      [] method \in {"_get_flow", "_set_flow"} -> <<"P", "R", "E", "S", ":", "L", "O", "O", "P", ":", "F", "S", "E", "T">>
      [] method = "_get_pressure" -> <<"P", "R", "E", "S", ":", "S", "I", "G", ":", "P", "R", "E", "S">>
      [] method \in {"_get_pressure_setpoint", "_set_pressure"} -> <<"P", "R", "E", "S", ":", "L", "O", "O", "P", ":", "P", "R", "S", "T">>

\* What the getter `method` returns or raises for a reply, on instance obj
ReadReturn(method, obj, uid, resp) ==
    CASE method = "_get_temperature" -> get_temperature_return(obj, uid, resp)
      [] method = "_get_temperature_setpoint" -> get_temperature_setpoint_return(obj, uid, resp)
      [] method = "_get_temperature_ramp_rate" -> get_temperature_ramp_rate_return(obj, uid, resp)
      [] method = "_get_ramp_mode" -> get_ramp_mode_return(obj, uid, resp)
      [] method = "_get_pid_mode" -> get_pid_mode_return(obj, uid, resp)
      [] method = "_get_heater_output" -> get_heater_output_return(obj, uid, resp)
      [] method = "_get_pressure_mode" -> get_pressure_mode_return(obj, uid, resp)
      [] method = "_get_flow" -> get_flow_return(obj, uid, resp)
      [] method = "_get_pressure" -> get_pressure_return(obj, uid, resp)
      [] method = "_get_pressure_setpoint" -> get_pressure_setpoint_return(obj, uid, resp)

\* The payload of the last reply, when it has one
HasPayload == Len(split(response)) >= 7
Payload == split(response)[7]

\* C1: every read hands the transport exactly "READ:DEV:" + uid + ":" + path,
\* path being the table's path for that operation, and nothing after it.
C1_ReadCommand ==
    called \in ReadMethods =>
        /\ uid_arg \in {vti_uid, probe_uid, pressure_uid}
        /\ command = <<"R", "E", "A", "D", ":", "D", "E", "V", ":">> \o uid_arg \o <<":">> \o TablePath(called)

C1_Witness ==
    /\ called = "_get_pressure_setpoint"
    /\ command = <<"R", "E", "A", "D", ":", "D", "E", "V", ":", "D", "B", "5", ".", "P", "1", ":", "P", "R", "E", "S", ":", "L", "O", "O", "P", ":", "P", "R", "S", "T">>

\* Digits after the point the specification gives each numeric write
TableDecimals(method) ==
    IF method \in {"_set_temperature_setpoint", "_set_temperature_ramp_rate"} THEN 3 ELSE 2

\* p is digits, one point, then exactly n digits
FixedPoint(p, n) ==
    /\ Len(p) >= n + 2
    /\ p[Len(p) - n] = "."
    /\ \A i \in 1..Len(p) : i # Len(p) - n => p[i] \in Digits

\* C2: every numeric write sends "SET:DEV:{uid}:{path}:{payload}" with exactly 3
\* digits after the point for TSET and RSET and exactly 2 for HSET, FSET and
\* PRST, whatever the value's own precision; 4.2 written to TSET on MB1.T1
\* gives "SET:DEV:MB1.T1:TEMP:LOOP:TSET:4.200".
C2_WriteCommand ==
    called \in NumericWriteMethods =>
        LET prefix == <<"S", "E", "T", ":", "D", "E", "V", ":">> \o uid_arg \o <<":">> \o TablePath(called) \o <<":">>
        IN  /\ Len(command) > Len(prefix)
            /\ SubSeq(command, 1, Len(prefix)) = prefix
            /\ FixedPoint(SubSeq(command, Len(prefix) + 1, Len(command)), TableDecimals(called))
            /\ (/\ called = "_set_temperature_setpoint"
                /\ uid_arg = <<"M", "B", "1", ".", "T", "1">>
                /\ value_arg = Number(42, 10))
               => command = <<"S", "E", "T", ":", "D", "E", "V", ":", "M", "B", "1", ".", "T", "1", ":", "T", "E", "M", "P", ":", "L", "O", "O", "P", ":", "T", "S", "E", "T", ":", "4", ".", "2", "0", "0">>

C2_Witness ==
    /\ called = "_set_temperature_setpoint"
    /\ value_arg = Number(42, 10)
    /\ command = <<"S", "E", "T", ":", "D", "E", "V", ":", "M", "B", "1", ".", "T", "1", ":", "T", "E", "M", "P", ":", "L", "O", "O", "P", ":", "T", "S", "E", "T", ":", "4", ".", "2", "0", "0">>

HasDuplicateValue(d) == \E i, j \in 1..Len(d) : i # j /\ d[i][2] = d[j][2]

\* C4: when two channel names carry the same hardware address, or two status
\* tokens the same boolean, construction ends in an error and never in inverse
\* tables that lack one of the names.
C4_DuplicatesRejected ==
    (called = "__init__" /\ (HasDuplicateValue(board_mapping) \/ HasDuplicateValue(status_mapping)))
        => (result.kind = "raise" /\ ~constructed)

\* C5: a read's value comes from the field at index 6 of the reply and from no
\* other field (replies that agree there give the same outcome), and a reply
\* of fewer than 7 fields makes the read raise.
C5_PayloadOnly ==
    called \in ReadMethods =>
        /\ ~HasPayload => result.kind = "raise"
        /\ HasPayload =>
             \A other \in ReadReplies(uid_arg, TablePath(called)) :
                 (Len(split(other)) >= 7 /\ split(other)[7] = Payload)
                     => ReadReturn(called, self, uid_arg, other) = result

C5_Witness ==
    /\ called = "_get_temperature"
    /\ response = <<"A", ":", "B", ":", "C">>
    /\ result = Raise("IndexError")

\* C6: each boolean read returns True for payload "ON", False for "OFF", and
\* raises for any other token.
C6_BooleanRead ==
    (called \in BooleanReadMethods /\ HasPayload) =>
        /\ Payload = <<"O", "N">> => result = Bool(TRUE)
        /\ Payload = <<"O", "F", "F">> => result = Bool(FALSE)
        /\ Payload \notin {<<"O", "N">>, <<"O", "F", "F">>} => result.kind = "raise"

C6_Witness ==
    /\ called = "_get_pressure_mode"
    /\ HasPayload
    /\ Payload = <<"M", "A", "Y", "B", "E">>
    /\ result = Raise("KeyError")

\* C7: each boolean write sends "SET:DEV:{uid}:{path}:ON" for True and
\* "SET:DEV:{uid}:{path}:OFF" for False, and raises for neither.
C7_BooleanWrite ==
    called \in BooleanWriteMethods =>
        /\ result.kind # "raise"
        /\ command = <<"S", "E", "T", ":", "D", "E", "V", ":">> \o uid_arg \o <<":">> \o TablePath(called) \o <<":">>
                         \o (IF value_arg.val THEN <<"O", "N">> ELSE <<"O", "F", "F">>)

C7_Witness ==
    /\ called = "_set_pressure_mode"
    /\ value_arg = Bool(FALSE)
    /\ command = <<"S", "E", "T", ":", "D", "E", "V", ":", "D", "B", "5", ".", "P", "1", ":", "P", "R", "E", "S", ":", "L", "O", "O", "P", ":", "E", "N", "A", "B", ":", "O", "F", "F">>

\* C8: every access, failed or not, makes exactly one transport exchange, a
\* write followed by a read: after n accesses the transport has seen n writes
\* and n reads, alternating, and a command was sent by the last access.
C8_OneExchange ==
    /\ Len(io) = 2 * calls
    /\ \A i \in 1..Len(io) : io[i] = (IF i % 2 = 1 THEN "write" ELSE "read")
    /\ calls > 0 => command # <<>>

C8_Witness ==
    /\ calls = 2
    /\ result.kind = "raise"
    /\ io = <<"write", "read", "write", "read">>

\* C9: through the tables built at construction, name -> address -> name gives
\* back each of the six channel names, and bool -> token -> bool gives back
\* True and False.
C9_RoundTrip ==
    /\ DictKeys(board_mapping) =
           {"VTI", "VTI_heater", "probe", "probe_heater", "gasflow", "pressure"}
    /\ \A name \in DictKeys(board_mapping) :
           /\ HasKey(reverse_board_mapping, Get(board_mapping, name))
           /\ Get(reverse_board_mapping, Get(board_mapping, name)) = name
    /\ \A b \in BOOLEAN :
           /\ HasKey(reverse_status_mapping, b)
           /\ HasKey(status_mapping, Get(reverse_status_mapping, b))
           /\ Get(status_mapping, Get(reverse_status_mapping, b)) = b

C9_Witness ==
    /\ constructed
    /\ Get(reverse_board_mapping, Get(board_mapping, "gasflow")) = "gasflow"
    /\ Get(status_mapping, Get(reverse_status_mapping, FALSE)) = FALSE

\* The instance as __init__ leaves it
Built == [board_mapping          |-> BoardMapping,
          status_mapping         |-> StatusMapping,
          reverse_board_mapping  |-> _reverse_mapping(BoardMapping),
          reverse_status_mapping |-> _reverse_mapping(StatusMapping)]

\* C10: whatever reads and writes have run, failed ones included, the four
\* tables are as construction left them, and a read's outcome is the one the
\* same reply gives on the freshly built instance.
C10_TablesFrozen ==
    /\ self = Built
    /\ called \in ReadMethods => result = ReadReturn(called, Built, uid_arg, response)

C10_Witness ==
    /\ calls = 2
    /\ called = "_get_ramp_mode"
    /\ result = Raise("KeyError")
    /\ self = Built

\* What the setter `method` returns or raises once the reply is in, on instance obj
WriteReturn(method, obj, uid, resp) ==
    CASE method = "_set_temperature_setpoint" -> set_temperature_setpoint_return(obj, uid, resp)
      [] method = "_set_temperature_ramp_rate" -> set_temperature_ramp_rate_return(obj, uid, resp)
      [] method = "_set_ramp_mode" -> set_ramp_mode_return(obj, uid, resp)
      [] method = "_set_pid_mode" -> set_pid_mode_return(obj, uid, resp)
      [] method = "_set_heater_output" -> set_heater_output_return(obj, uid, resp)
      [] method = "_set_pressure_mode" -> set_pressure_mode_return(obj, uid, resp)
      [] method = "_set_flow" -> set_flow_return(obj, uid, resp)
      [] method = "_set_pressure" -> set_pressure_return(obj, uid, resp)

\* C11: a write on a configured channel returns normally whatever the device
\* replied (accepted, rejected, or fewer than 7 fields), and any other reply
\* would have given the caller the same outcome.
C11_ReplyIgnored ==
    called \in NumericWriteMethods \cup BooleanWriteMethods =>
        /\ result = None
        /\ \A other \in WriteReplies(uid_arg, TablePath(called)) :
               WriteReturn(called, self, uid_arg, other) = result

C11_Witness ==
    /\ called = "_set_temperature_setpoint"
    /\ response = <<"S", "T", "A", "T", ":", "S", "E", "T", ":", "D", "E", "V", ":", "M", "B", "1", ".", "T", "1", ":", "T", "E", "M", "P", ":", "L", "O", "O", "P", ":", "T", "S", "E", "T", ":", "I", "N", "V", "A", "L", "I", "D">>
    /\ result = None

====
